---- MODULE Spec2Model ----
(***************************************************************************)
(* Season-record pipeline of NBA_HOF_1949_2024: award classification       *)
(* (combine_custom_season.py), era imputation and career aggregation       *)
(* (consolidate_impute_NBA_careerpy.py / consolidate_impute_HOF_career.py),*)
(* per-file normalisation (modify_single_season.py) and merging.           *)
(*                                                                         *)
(* A table (pandas DataFrame) is [cols |-> set of column names,            *)
(* rows |-> sequence of rows], a row being a function from the column      *)
(* names to the cell values.  Text cells are strings; a missing text cell  *)
(* is NaN.  Numeric cells are exact rationals <<n, d>> in units of 0.0001  *)
(* (10.0 is <<100000, 1>>); a missing numeric cell is nan.                 *)
(* files is the working directory, a function from file names to file      *)
(* contents; processed_files is the list process_all_nba_files returns.    *)
(***************************************************************************)
EXTENDS Integers, Sequences, FiniteSets, TLC

VARIABLES df, prev, op, err, runs, files, processed_files

vars == <<df, prev, op, err, runs, files, processed_files>>

(***************************************************************************)
(* Bounds of the model.                                                    *)
(***************************************************************************)
\* rows of an award table
MaxRows == 2
\* applications of a classification handler to the same file
MaxRuns == 2

\* a missing text cell, as read_csv returns it for an empty field
NaN == "NaN"

(***************************************************************************)
(* Python string operations used by the classifiers.                       *)
(***************************************************************************)
IsSpace(c) == c \in {" ", "\t"}

RECURSIVE lstrip(_)
lstrip(s) ==
    IF Len(s) > 0 /\ IsSpace(SubSeq(s, 1, 1))
    THEN lstrip(SubSeq(s, 2, Len(s)))
    ELSE s

RECURSIVE rstrip(_)
rstrip(s) ==
    IF Len(s) > 0 /\ IsSpace(SubSeq(s, Len(s), Len(s)))
    THEN rstrip(SubSeq(s, 1, Len(s) - 1))
    ELSE s

\* str.strip()
strip(s) == rstrip(lstrip(s))

\* str.split(sep) for a one-character separator: the pieces between the
\* separators, empty pieces included
RECURSIVE SplitFrom(_, _, _, _)
SplitFrom(s, sep, start, i) ==
    IF i > Len(s)
    THEN <<SubSeq(s, start, Len(s))>>
    ELSE IF SubSeq(s, i, i) = sep
         THEN <<SubSeq(s, start, i - 1)>> \o SplitFrom(s, sep, i + 1, i + 1)
         ELSE SplitFrom(s, sep, start, i + 1)

split(s, sep) == SplitFrom(s, sep, 1, 1)

\* str.startswith(prefix)
startswith(s, prefix) ==
    Len(s) >= Len(prefix) /\ SubSeq(s, 1, Len(prefix)) = prefix

\* [part.strip() for part in original_text.split(',') if part.strip()]
RECURSIVE StripNonEmpty(_)
StripNonEmpty(parts) ==
    IF parts = <<>>
    THEN <<>>
    ELSE IF strip(Head(parts)) # ""
         THEN <<strip(Head(parts))>> \o StripNonEmpty(Tail(parts))
         ELSE StripNonEmpty(Tail(parts))

award_parts(original_text) == StripNonEmpty(split(original_text, ","))

(***************************************************************************)
(* Award tables of process_awards.                                         *)
(***************************************************************************)
\* dict of prefix -> base flag, in insertion order
award_prefixes ==
    << <<"MVP-", "MVP">>, <<"ROY-", "ROY">>, <<"DPOY-", "DPOY">>,
       <<"6MOY-", "6MOY">>, <<"CPOY-", "CPOY">>, <<"MIP-", "MIP">> >>

fixed_awards == <<"AS", "DEF1", "DEF2", "NBA1", "NBA2", "NBA3">>

award_columns ==
    <<"6MOY", "AS", "DEF1", "DEF2", "NBA1", "NBA2", "NBA3",
      "MVP", "DPOY", "ROY", "MIP", "CPOY">>

Range(seq) == {seq[i] : i \in 1..Len(seq)}

\* "for x in seq: if test(x): ... break": the first index among the hits,
\* 0 when the loop ends without a hit
First(hits) ==
    IF hits = {} THEN 0 ELSE CHOOSE i \in hits : \A j \in hits : i <= j

(***************************************************************************)
(* process_awards: regular-season classification.                          *)
(***************************************************************************)
\* mutant: a ranked award counts as first place when its rank starts with 1
classify_part_rank_prefix(part) ==
    LET f == First({i \in 1..Len(fixed_awards) : part = fixed_awards[i]})
        p == First({i \in 1..Len(award_prefixes) :
                      startswith(part, award_prefixes[i][1])})
    IN  IF f # 0
        THEN [text |-> "/" \o fixed_awards[f] \o "/", set |-> {fixed_awards[f]}]
        ELSE IF p # 0
             THEN [text |-> "/" \o part \o "/",
                   set  |-> IF startswith(part, award_prefixes[p][1] \o "1")
                            THEN {award_prefixes[p][2]}
                            ELSE {}]
             ELSE [text |-> "/" \o part \o "/", set |-> {}]

\* mutant: a fixed award is matched as a prefix of the part
classify_part_fixed_prefix(part) ==
    LET f == First({i \in 1..Len(fixed_awards) : startswith(part, fixed_awards[i])})
        p == First({i \in 1..Len(award_prefixes) :
                      startswith(part, award_prefixes[i][1])})
    IN  IF f # 0
        THEN [text |-> "/" \o fixed_awards[f] \o "/", set |-> {fixed_awards[f]}]
        ELSE IF p # 0
             THEN [text |-> "/" \o part \o "/",
                   set  |-> IF part = award_prefixes[p][1] \o "1"
                            THEN {award_prefixes[p][2]}
                            ELSE {}]
             ELSE [text |-> "/" \o part \o "/", set |-> {}]

\* mutant: a part that matches no award pattern is not added to the text
classify_part_drop_unknown(part) ==
    LET f == First({i \in 1..Len(fixed_awards) : part = fixed_awards[i]})
        p == First({i \in 1..Len(award_prefixes) :
                      startswith(part, award_prefixes[i][1])})
    IN  IF f # 0
        THEN [text |-> "/" \o fixed_awards[f] \o "/", set |-> {fixed_awards[f]}]
        ELSE IF p # 0
             THEN [text |-> "/" \o part \o "/",
                   set  |-> IF part = award_prefixes[p][1] \o "1"
                            THEN {award_prefixes[p][2]}
                            ELSE {}]
             ELSE [text |-> "", set |-> {}]

\* the body of "for part in award_parts": the text appended to modified_text
\* and the columns added to awards_to_set
classify_part(part) ==
    LET f == First({i \in 1..Len(fixed_awards) : part = fixed_awards[i]})
        p == First({i \in 1..Len(award_prefixes) :
                      startswith(part, award_prefixes[i][1])})
    IN  IF f # 0
        THEN [text |-> "/" \o fixed_awards[f] \o "/", set |-> {fixed_awards[f]}]
        ELSE IF p # 0
             THEN [text |-> "/" \o part \o "/",
                   set  |-> IF part = award_prefixes[p][1] \o "1"
                            THEN {award_prefixes[p][2]}
                            ELSE {}]
             ELSE [text |-> "/" \o part \o "/", set |-> {}]

\* the loop over award_parts: modified_text and awards_to_set
RECURSIVE classify_parts(_)
classify_parts(parts) ==
    IF parts = <<>>
    THEN [text |-> "", set |-> {}]
    ELSE LET h == classify_part(Head(parts))
             t == classify_parts(Tail(parts))
         IN  [text |-> h.text \o t.text, set |-> h.set \cup t.set]

\* mutant: no fallback to the original text
fallback_text_none(modified_text, original_text) == modified_text

\* "If modified_text is empty but original had content, preserve the original"
fallback_text(modified_text, original_text) ==
    IF modified_text = "" /\ original_text # ""
    THEN "/" \o original_text \o "/"
    ELSE modified_text

\* mutant: the mask keeps whitespace-only cells
awards_mask_notna(row) == row["Awards"] # NaN

\* df['Awards'].notna() & (df['Awards'].str.strip() != '')
awards_mask(row) == row["Awards"] # NaN /\ strip(row["Awards"]) # ""

\* read_csv gives an all-empty column the dtype float64, on which the .str
\* accessor raises AttributeError; one text cell makes the column object
IsStringColumn(d, col) == \E i \in 1..Len(d.rows) : d.rows[i][col] # NaN

\* df.rename(columns={old: new})
rename(d, old, new) ==
    IF old \notin d.cols
    THEN d
    ELSE LET cols2 == (d.cols \ {old}) \cup {new}
         IN  [cols |-> cols2,
              rows |-> [i \in 1..Len(d.rows) |->
                          [c \in cols2 |-> IF c = new THEN d.rows[i][old]
                                                      ELSE d.rows[i][c]]]]

\* mutant: a column that exists keeps its values
set_columns_new_only(d, newcols, value) ==
    LET cols2 == d.cols \cup newcols
    IN  [cols |-> cols2,
         rows |-> [i \in 1..Len(d.rows) |->
                     [c \in cols2 |-> IF c \in d.cols THEN d.rows[i][c]
                                                     ELSE value]]]

\* df[col] = value for every col of newcols
set_columns(d, newcols, value) ==
    LET cols2 == d.cols \cup newcols
    IN  [cols |-> cols2,
         rows |-> [i \in 1..Len(d.rows) |->
                     [c \in cols2 |-> IF c \in newcols THEN value
                                                       ELSE d.rows[i][c]]]]

\* one iteration of "for idx, row in rows_with_awards.iterrows()"
process_awards_row(row) ==
    LET original_text == row["Awards"]
        acc == classify_parts(award_parts(original_text))
        modified_text == fallback_text(acc.text, original_text)
    IN  [c \in DOMAIN row |->
            IF c = "Awards" THEN modified_text
            ELSE IF c \in acc.set THEN 1
            ELSE row[c]]

\* the whole handler on the table read from input_file: the table written to
\* output_file, or the exception that ends the run before anything is written
process_awards(d) ==
    LET d0 == set_columns(d, Range(award_columns), 0)
    IN  IF "Awards" \notin d.cols
        THEN [df |-> d0, err |-> "none"]
        ELSE IF ~IsStringColumn(d, "Awards")
        THEN [df |-> d, err |-> "AttributeError"]
        ELSE [df  |-> rename([cols |-> d0.cols,
                              rows |-> [i \in 1..Len(d0.rows) |->
                                          IF awards_mask(d0.rows[i])
                                          THEN process_awards_row(d0.rows[i])
                                          ELSE d0.rows[i]]],
                             "Awards", "Awards List"),
              err |-> "none"]

(***************************************************************************)
(* process_playoffs_awards: postseason classification.                     *)
(***************************************************************************)
\* mutant: any part ending in MVP-1 counts as the Finals MVP
classify_playoff_part_any_mvp(part) ==
    IF Len(part) >= 5 /\ SubSeq(part, Len(part) - 4, Len(part)) = "MVP-1"
    THEN [text |-> "/" \o part \o "/", found |-> TRUE]
    ELSE [text |-> "/" \o part \o "/", found |-> FALSE]

\* the body of "for part in award_parts"
classify_playoff_part(part) ==
    IF part = "Finals MVP-1"
    THEN [text |-> "/Finals MVP-1/", found |-> TRUE]
    ELSE [text |-> "/" \o part \o "/", found |-> FALSE]

RECURSIVE classify_playoff_parts(_)
classify_playoff_parts(parts) ==
    IF parts = <<>>
    THEN [text |-> "", found |-> FALSE]
    ELSE LET h == classify_playoff_part(Head(parts))
             t == classify_playoff_parts(Tail(parts))
         IN  [text |-> h.text \o t.text, found |-> h.found \/ t.found]

process_playoffs_row(row) ==
    LET original_text == row["Awards"]
        acc == classify_playoff_parts(award_parts(original_text))
        modified_text == fallback_text(acc.text, original_text)
    IN  [c \in DOMAIN row |->
            IF c = "Awards" THEN modified_text
            ELSE IF c = "Final MVP" /\ acc.found THEN 1
            ELSE row[c]]

process_playoffs_awards(d) ==
    LET d0 == set_columns(d, {"Final MVP"}, 0)
    IN  IF "Awards" \notin d.cols
        THEN [df |-> d0, err |-> "none"]
        ELSE IF ~IsStringColumn(d, "Awards")
        THEN [df |-> d, err |-> "AttributeError"]
        ELSE [df  |-> rename([cols |-> d0.cols,
                              rows |-> [i \in 1..Len(d0.rows) |->
                                          IF awards_mask(d0.rows[i])
                                          THEN process_playoffs_row(d0.rows[i])
                                          ELSE d0.rows[i]]],
                             "Awards", "Awards List"),
              err |-> "none"]

(***************************************************************************)
(* Award tables the classifiers are run on.                                *)
(***************************************************************************)
\* comma-separated fields of an Awards cell, as they stand in the file
RawTokens == {"AS", " MVP-1 ", "MVP-10", "Finals MVP-1", "???"}

\* Awards cells: one field, or two fields joined by a comma, cells without any
\* award text in them, and the examples of the specification; the empty cell
\* is read as NaN
RawTexts ==
    RawTokens
        \cup {a \o "," \o b : a \in RawTokens, b \in RawTokens}
        \cup {" ", ",", " , ", ",AS,", "ASG"}
        \cup {"MVP-1,AS,NBA1", "MVP-2,AS"}
        \cup {NaN}

\* columns a table may carry from an earlier classification of the file
StaleColumns == Range(award_columns) \cup {"Final MVP"}

AwardTable(texts, stale) ==
    LET cols == {"Awards"} \cup (IF stale THEN StaleColumns ELSE {})
    IN  [cols |-> cols,
         rows |-> [i \in 1..Len(texts) |->
                     [c \in cols |-> IF c = "Awards" THEN texts[i] ELSE 1]]]

\* the merged file: rows of Awards cells; a one-row file may carry stale
\* award columns set to 1
Init ==
    /\ \E n \in 1..MaxRows, stale \in BOOLEAN :
         /\ stale => n = 1
         /\ \E texts \in [1..n -> RawTexts] :
               df = AwardTable(texts, stale)
    /\ prev = df
    /\ op = "none"
    /\ err = "none"
    /\ runs = 0
    /\ files = <<>>
    /\ processed_files = <<>>

\* process_regular_season: process_awards on the merged regular-season file,
\* or once more on the file it wrote
ProcessAwards ==
    /\ err = "none"
    /\ runs < MaxRuns
    /\ op \in {"none", "process_awards"}
    /\ LET r == process_awards(df)
       IN  df' = r.df /\ err' = r.err
    /\ prev' = df
    /\ op' = "process_awards"
    /\ runs' = runs + 1
    /\ UNCHANGED <<files, processed_files>>

\* process_playoffs: process_playoffs_awards on the merged postseason file,
\* or once more on the file it wrote
ProcessPlayoffsAwards ==
    /\ err = "none"
    /\ runs < MaxRuns
    /\ op \in {"none", "process_playoffs_awards"}
    /\ LET r == process_playoffs_awards(df)
       IN  df' = r.df /\ err' = r.err
    /\ prev' = df
    /\ op' = "process_playoffs_awards"
    /\ runs' = runs + 1
    /\ UNCHANGED <<files, processed_files>>

Next == ProcessAwards \/ ProcessPlayoffsAwards

Spec == Init /\ [][Next]_vars

(***************************************************************************)
(* Numbers of the imputer.  A numeric cell is an exact rational <<n, d>>,   *)
(* d > 0, in lowest terms, counted in units of 0.0001 (10.0 is             *)
(* <<100000, 1>>); nan = <<0, 0>> is the missing cell.  Floating-point     *)
(* error is not modelled.                                                  *)
(***************************************************************************)
nan == <<0, 0>>

\* pd.isna on a numeric cell
isna(v) == v[2] = 0

Abs(x) == IF x < 0 THEN -x ELSE x

RECURSIVE GCD(_, _)
GCD(a, b) == IF b = 0 THEN a ELSE GCD(b, a % b)

\* the rational n / d, d > 0, in lowest terms
Q(n, d) == LET g == GCD(Abs(n), d) IN <<n \div g, d \div g>>

RAdd(a, b) == Q(a[1] * b[2] + b[1] * a[2], a[2] * b[2])

RECURSIVE RSum(_)
RSum(vs) == IF vs = <<>> THEN <<0, 1>> ELSE RAdd(Head(vs), RSum(Tail(vs)))

\* Series.mean(): the mean of the cells that are not missing, nan when every
\* cell is missing (or there is none)
mean(vs) ==
    LET present == SelectSeq(vs, LAMBDA v : ~isna(v))
        total == RSum(present)
    IN  IF present = <<>> THEN nan
        ELSE Q(total[1], total[2] * Len(present))

\* one thousandth, in units of 0.0001
Milli == 10

\* DataFrame.round(3): the nearest multiple of 0.001, a tie going to the even
\* one; a missing cell stays missing
round3(v) ==
    IF isna(v) THEN nan
    ELSE LET step == Milli * v[2]
             q == v[1] \div step
             r == v[1] - q * step
             up == \/ 2 * r > step
                   \/ 2 * r = step /\ q % 2 = 1
         IN  <<Milli * (IF up THEN q + 1 ELSE q), 1>>

(***************************************************************************)
(* impute_missing_values: eras.                                            *)
(***************************************************************************)
all_metrics ==
    <<"MP", "PER", "TS%", "3PAr", "FTr", "ORB%", "DRB%", "TRB%", "AST%",
      "STL%", "BLK%", "TOV%", "USG%", "WS/48", "OBPM", "DBPM", "BPM">>

bins == <<1940, 1960, 1980, 2000, 2025>>

labels == <<"Pre-modern", "Early-modern", "Modern", "Contemporary">>

DigitValue(c) ==
    CASE c = "0" -> 0 [] c = "1" -> 1 [] c = "2" -> 2 [] c = "3" -> 3
      [] c = "4" -> 4 [] c = "5" -> 5 [] c = "6" -> 6 [] c = "7" -> 7
      [] c = "8" -> 8 [] c = "9" -> 9

\* int(s) for a string of decimal digits
RECURSIVE int(_)
int(s) ==
    IF Len(s) = 0 THEN 0
    ELSE 10 * int(SubSeq(s, 1, Len(s) - 1)) + DigitValue(SubSeq(s, Len(s), Len(s)))

\* df_imputed['Year']: int(x.split('-')[0])
Year(row) == int(split(row["Season"], "-")[1])

\* pd.cut(year, bins, labels): bins[k] < year <= bins[k + 1] gives labels[k];
\* a year in no interval gives the missing category
cut(year) ==
    LET hit == {k \in 1..Len(labels) : bins[k] < year /\ year <= bins[k + 1]}
    IN  IF hit = {} THEN NaN ELSE labels[CHOOSE k \in hit : TRUE]

\* df_imputed['Era'] of a row of the input table
Era(row) == cut(Year(row))

\* df_imputed = df.copy() with the temporary column Era (Year serves only to
\* compute it)
with_era(t) ==
    [cols |-> t.cols \cup {"Era"},
     rows |-> [i \in 1..Len(t.rows) |->
                 [c \in t.cols \cup {"Era"} |->
                    IF c = "Era" THEN Era(t.rows[i]) ELSE t.rows[i][c]]]]

\* df_imputed.drop(columns=['Year', 'Era'])
drop_era(t) ==
    [cols |-> t.cols \ {"Era"},
     rows |-> [i \in 1..Len(t.rows) |->
                 [c \in t.cols \ {"Era"} |-> t.rows[i][c]]]]

\* Series.unique(): the values in order of first appearance
RECURSIVE unique(_)
unique(vs) ==
    IF vs = <<>> THEN <<>>
    ELSE LET init == unique(SubSeq(vs, 1, Len(vs) - 1))
             last == vs[Len(vs)]
         IN  IF last \in Range(init) THEN init ELSE Append(init, last)

\* the index of df_imputed[df_imputed['Era'] == era], ascending; comparing
\* with the missing category selects no row
RECURSIVE EraIndexFrom(_, _, _)
EraIndexFrom(t, era, i) ==
    IF i > Len(t.rows) THEN <<>>
    ELSE IF era # NaN /\ t.rows[i]["Era"] = era
         THEN <<i>> \o EraIndexFrom(t, era, i + 1)
         ELSE EraIndexFrom(t, era, i + 1)

EraIndex(t, era) == EraIndexFrom(t, era, 1)

\* mutant: the rows of every era
take_all(t, idx) == t.rows

\* the rows of t at the positions idx, copied
take(t, idx) == [k \in 1..Len(idx) |-> t.rows[idx[k]]]

\* the column of a sequence of rows
column(rows, col) == [k \in 1..Len(rows) |-> rows[k][col]]

\* Series.isna().all() and Series.isna().any(); on no row, all() is true
isna_all(rows, col) == \A k \in 1..Len(rows) : isna(rows[k][col])
isna_any(rows, col) == \E k \in 1..Len(rows) : isna(rows[k][col])

\* metrics_to_impute = [col for col in all_metrics if col in df.columns]
metrics_to_impute(t) == SelectSeq(all_metrics, LAMBDA col : col \in t.cols)


(***************************************************************************)
(* sklearn.impute.KNNImputer(n_neighbors).fit_transform(X) with uniform    *)
(* weights and the nan_euclidean metric, X being the rows of one era       *)
(* restricted to the columns cols.                                         *)
(***************************************************************************)
RSub(a, b) == Q(a[1] * b[2] - b[1] * a[2], a[2] * b[2])
RMul(a, b) == Q(a[1] * b[1], a[2] * b[2])
RLess(a, b) == a[1] * b[2] < b[1] * a[2]

Min(a, b) == IF a <= b THEN a ELSE b

\* the columns in which rows r and j both hold a value
Common(X, cols, r, j) ==
    {c \in Range(cols) : ~isna(X[r][c]) /\ ~isna(X[j][c])}

RECURSIVE SumSq(_, _, _, _)
SumSq(X, cs, r, j) ==
    IF cs = {} THEN <<0, 1>>
    ELSE LET c == CHOOSE x \in cs : TRUE
             d == RSub(X[r][c], X[j][c])
         IN  RAdd(RMul(d, d), SumSq(X, cs \ {c}, r, j))

\* nan_euclidean_distances, squared: the squared differences over the common
\* columns, scaled by (number of columns / number of common columns); nan
\* when the rows share no column
Dist2(X, cols, r, j) ==
    LET cs == Common(X, cols, r, j)
        ss == SumSq(X, cs, r, j)
    IN  IF cs = {} THEN nan
        ELSE Q(Len(cols) * ss[1], Cardinality(cs) * ss[2])

\* donor a is taken before donor b for receiver r: the smaller distance
\* first, a nan distance last; the order argpartition leaves among equal
\* distances is the implementation's, here the row order
Closer(X, cols, r, a, b) ==
    LET da == Dist2(X, cols, r, a)
        db == Dist2(X, cols, r, b)
    IN  IF isna(da) THEN isna(db) /\ a < b
        ELSE IF isna(db) THEN TRUE
        ELSE RLess(da, db) \/ (da = db /\ a < b)

\* np.argpartition(dist, k - 1)[:k]: the k nearest donors
Neighbors(X, cols, r, donors, k) ==
    IF k >= Cardinality(donors) THEN donors
    ELSE {j \in donors :
            Cardinality({a \in donors \ {j} : Closer(X, cols, r, a, j)}) < k}

\* the mean of column c over the rows in S
MeanOver(X, c, S) ==
    mean([k \in 1..Len(X) |-> IF k \in S THEN X[k][c] ELSE nan])

\* the value imputed into the missing cell (r, c): the column mean when no
\* donor is at a defined distance, else the mean of the nearest donors, those
\* at an undefined distance weighing 0
knn_value(X, cols, n_neighbors, r, c) ==
    LET donors == {j \in 1..Len(X) : ~isna(X[j][c])}
        finite == {j \in donors : Common(X, cols, r, j) # {}}
        chosen == Neighbors(X, cols, r, donors,
                            Min(n_neighbors, Cardinality(donors)))
    IN  IF finite = {} THEN MeanOver(X, c, donors)
        ELSE MeanOver(X, c, chosen \cap finite)

\* mutant: every row gets the mean of the column
fit_transform_last_mean(X, cols, n_neighbors) ==
    LET valid == SelectSeq(cols, LAMBDA c : ~isna_all(X, c))
        c == valid[Len(valid)]
    IN  [r \in 1..Len(X) |-> MeanOver(X, c, 1..Len(X))]

\* imputed_values[:, -1]: fit_transform drops the columns that are missing
\* in every row, so the last column of its result is the last column of cols
\* that holds a value in some row
fit_transform_last(X, cols, n_neighbors) ==
    LET valid == SelectSeq(cols, LAMBDA c : ~isna_all(X, c))
        c == valid[Len(valid)]
    IN  [r \in 1..Len(X) |->
            IF isna(X[r][c]) THEN knn_value(X, cols, n_neighbors, r, c)
            ELSE X[r][c]]

(***************************************************************************)
(* impute_missing_values: the per-era pass.                                *)
(***************************************************************************)
\* KNNImputer(n_neighbors=min(5, len(era_df)))
max_neighbors == 5

\* "use a default": 20.0 minutes per game, 0.0 for the other metrics
default_value(metric) == IF metric = "MP" THEN <<200000, 1>> ELSE <<0, 1>>

\* df_imputed.loc[idx, col] = values (one value per position of idx)
assign(t, idx, col, values) ==
    [cols |-> t.cols,
     rows |-> [i \in 1..Len(t.rows) |->
                 IF \E k \in 1..Len(idx) : idx[k] = i
                 THEN [t.rows[i] EXCEPT
                          ![col] = values[CHOOSE k \in 1..Len(idx) : idx[k] = i]]
                 ELSE t.rows[i]]]

\* df_imputed.loc[idx, col] = value
assign_all(t, idx, col, value) ==
    assign(t, idx, col, [k \in 1..Len(idx) |-> value])

\* mutant: every metric of the era is imputed, missing values or not
has_missing_always(era_df, metric) == TRUE

\* "if era_df[metric].isna().any()"
has_missing(era_df, metric) == isna_any(era_df, metric)

\* global_avg of the single-sample branch: the mean of the column as it
\* stands in df_imputed, the default when that is missing
global_avg(t, metric) ==
    LET avg == mean(column(t.rows, metric))
    IN  IF isna(avg) THEN default_value(metric) ELSE avg

\* the body of "for metric in metrics_to_impute" of the per-era pass
impute_metric(t, era_df, idx, features, metric) ==
    IF ~has_missing(era_df, metric) THEN t
    ELSE LET without == SelectSeq(features, LAMBDA f : f # metric)
             temp_features == IF without = <<>> THEN <<"G">> ELSE without
         IN  IF Len(era_df) > 1
             THEN assign(t, idx, metric,
                         fit_transform_last(era_df,
                                            temp_features \o <<metric>>,
                                            Min(max_neighbors, Len(era_df))))
             ELSE assign_all(t, idx, metric, global_avg(t, metric))

RECURSIVE impute_metrics(_, _, _, _, _)
impute_metrics(t, era_df, idx, features, metrics) ==
    IF metrics = <<>> THEN t
    ELSE impute_metrics(impute_metric(t, era_df, idx, features, Head(metrics)),
                        era_df, idx, features, Tail(metrics))

\* the body of "for era in df_imputed['Era'].unique()": era_df is the copy
\* of the era's rows taken when the era is entered
impute_era(t, era) ==
    LET idx == EraIndex(t, era)
        era_df == take(t, idx)
        features ==
            <<"G">> \o SelectSeq(metrics_to_impute(t),
                                 LAMBDA metric : ~isna_all(era_df, metric))
    IN  impute_metrics(t, era_df, idx, features, metrics_to_impute(t))

RECURSIVE first_pass(_, _)
first_pass(t, eras) ==
    IF eras = <<>> THEN t
    ELSE first_pass(impute_era(t, Head(eras)), Tail(eras))

(***************************************************************************)
(* impute_missing_values: the pass over the metrics an era lacks wholly.   *)
(***************************************************************************)
potential_eras == <<"Early-modern", "Modern", "Contemporary">>

\* the body of "for era in [...]" of the second pass; the second test reads
\* era_df, the copy taken before the fill
backfill(t, metric, era) ==
    LET idx == EraIndex(t, era)
        era_df == take(t, idx)
        found == {k \in 1..Len(potential_eras) :
                    ~isna_all(take(t, EraIndex(t, potential_eras[k])), metric)}
        filled ==
            IF found = {} THEN t
            ELSE LET potential_era == potential_eras[First(found)]
                     avg_value ==
                         mean(column(take(t, EraIndex(t, potential_era)), metric))
                 IN  assign_all(t, idx, metric, avg_value)
    IN  IF ~isna_all(era_df, metric) THEN t
        ELSE IF isna_all(era_df, metric)
             THEN assign_all(filled, idx, metric, default_value(metric))
             ELSE filled

RECURSIVE backfill_eras(_, _, _)
backfill_eras(t, metric, eras) ==
    IF eras = <<>> THEN t
    ELSE backfill_eras(backfill(t, metric, Head(eras)), metric, Tail(eras))

RECURSIVE second_pass(_, _)
second_pass(t, metrics) ==
    IF metrics = <<>> THEN t
    ELSE second_pass(backfill_eras(t, Head(metrics), labels), Tail(metrics))

\* df_imputed[numeric_cols].round(3): every column but Season and Era is
\* numeric
round_numeric(t) ==
    [cols |-> t.cols,
     rows |-> [i \in 1..Len(t.rows) |->
                 [c \in t.cols |-> IF c \in {"Season", "Era"} THEN t.rows[i][c]
                                   ELSE round3(t.rows[i][c])]]]

\* the whole function: the table it returns
impute_missing_values(t) ==
    LET df_imputed == with_era(t)
        eras == unique(column(df_imputed.rows, "Era"))
    IN  drop_era(round_numeric(second_pass(first_pass(df_imputed, eras),
                                           metrics_to_impute(t))))

(***************************************************************************)
(* Season tables the imputer is run on.                                    *)
(***************************************************************************)
\* records of a season table
MaxRecords == 3

\* season tokens: one per era met, and one past the last bin
Seasons == {"1950-1951", "1970-1971", "1990-1991", "2026-2027"}

\* cells of a metric column: missing, 10.0, 20.0044
MetricValues == {nan, <<100000, 1>>, <<200044, 1>>}

\* the games of the record at position i: 10, 20, ...
GamesAt(i) == <<100000 * i, 1>>

\* the metric columns of a table: one, or two for tables of up to two records
MetricColumns(n) ==
    {<<"MP">>, <<"PER">>} \cup (IF n <= 2 THEN {<<"MP", "PER">>} ELSE {})

SeasonTable(seasons, metrics, values) ==
    LET cols == {"Season", "G"} \cup Range(metrics)
    IN  [cols |-> cols,
         rows |-> [i \in 1..Len(seasons) |->
                     [c \in cols |->
                        IF c = "Season" THEN seasons[i]
                        ELSE IF c = "G" THEN GamesAt(i)
                        ELSE values[i][CHOOSE k \in 1..Len(metrics) :
                                           metrics[k] = c]]]]

InitImpute ==
    /\ \E n \in 1..MaxRecords :
         \E metrics \in MetricColumns(n) :
            \E seasons \in [1..n -> Seasons],
               values \in [1..n -> [1..Len(metrics) -> MetricValues]] :
               df = SeasonTable(seasons, metrics, values)
    /\ prev = df
    /\ op = "none"
    /\ err = "none"
    /\ runs = 0
    /\ files = <<>>
    /\ processed_files = <<>>

\* regular_df_imputed = impute_missing_values(regular_df), or once more on
\* the table it returned
ImputeMissingValues ==
    /\ err = "none"
    /\ runs < MaxRuns
    /\ df' = impute_missing_values(df)
    /\ prev' = df
    /\ op' = "impute_missing_values"
    /\ UNCHANGED err
    /\ runs' = runs + 1
    /\ UNCHANGED <<files, processed_files>>

NextImpute == ImputeMissingValues

SpecImpute == InitImpute /\ [][NextImpute]_vars

(***************************************************************************)
(* calculate_career_stats, in the all-players script                       *)
(* (consolidate_impute_NBA_careerpy.py) and in the Hall-of-Fame script     *)
(* (consolidate_impute_HOF_career.py).  A season table is                   *)
(* [cols, rows] as above with a Player column; the career table has one    *)
(* row per entry of df['Player'].unique(), in that order.                  *)
(***************************************************************************)
sum_metrics == <<"G", "MP", "OWS", "DWS", "WS", "VORP">>

weighted_by_mp ==
    <<"PER", "TS%", "3PAr", "FTr", "USG%", "WS/48", "ORB%", "DRB%", "TRB%",
      "AST%", "STL%", "BLK%", "TOV%", "OBPM", "DBPM", "BPM">>

\* award_columns of calculate_career_stats (with 'Final MVP')
career_award_columns ==
    <<"MVP", "DPOY", "ROY", "MIP", "CPOY", "AS", "DEF1", "DEF2", "NBA1",
      "NBA2", "NBA3", "6MOY", "Final MVP">>

\* mutant: one career row per season row
players_per_row(t) == column(t.rows, "Player")

\* df['Player'].unique()
players(t) == unique(column(t.rows, "Player"))

\* the group of a player in df.groupby('Player'): the player's rows in table
\* order
group(t, player) == SelectSeq(t.rows, LAMBDA row : row["Player"] = player)

\* mutant: the last value of the group
groupby_first_last(rows, col) == rows[Len(rows)][col]

\* GroupBy.first(): the first value of the group that is not missing, missing
\* when there is none
groupby_first(rows, col) ==
    LET present == SelectSeq(column(rows, col), LAMBDA v : ~isna(v))
    IN  IF present = <<>> THEN nan ELSE Head(present)

\* mutant: 1 when any value of the group is positive, else 0
groupby_sum_any(rows, col) ==
    IF \E k \in 1..Len(rows) : ~isna(rows[k][col]) /\ rows[k][col][1] > 0
    THEN <<10000, 1>> ELSE <<0, 1>>

\* GroupBy.sum(): the sum of the values that are not missing (0 when there is
\* none)
groupby_sum(rows, col) ==
    RSum(SelectSeq(column(rows, col), LAMBDA v : ~isna(v)))

\* np.sum of an array: missing as soon as one value is missing
RECURSIVE np_sum(_)
np_sum(vs) ==
    IF vs = <<>> THEN <<0, 1>>
    ELSE IF isna(Head(vs)) \/ isna(np_sum(Tail(vs))) THEN nan
    ELSE RAdd(Head(vs), np_sum(Tail(vs)))

\* a * b, missing when a or b is
np_multiply(a, b) == IF isna(a) \/ isna(b) THEN nan ELSE RMul(a, b)

\* np.average raises ZeroDivisionError when the weights sum to 0.0
weights_sum_to_zero(ws) == np_sum(ws) = <<0, 1>>

\* mutant: the unweighted mean
np_average_unweighted(vs, ws) == mean(vs)

\* np.average(vs, weights=ws) when it returns: sum(vs * ws) / sum(ws)
np_average(vs, ws) ==
    LET scl == np_sum(ws)
        num == np_sum([k \in 1..Len(vs) |-> np_multiply(vs[k], ws[k])])
    IN  IF isna(scl) \/ isna(num) THEN nan
        ELSE LET s == IF scl[1] < 0 THEN -1 ELSE 1
             IN  Q(s * num[1] * scl[2], s * num[2] * scl[1])

\* mutant: a metric missing in every season of the player counts as 0
all_missing_value_zero == <<0, 1>>

\* "Skip calculation if all values are NaN": return np.nan
all_missing_value == nan

\* safe_weighted_average(group) of the all-players script; a KeyError of
\* group['MP'] is caught by the except clause, which returns the simple mean
safe_weighted_average(t, rows, metric) ==
    IF isna_all(rows, metric) THEN all_missing_value
    ELSE IF "MP" \notin t.cols THEN mean(column(rows, metric))
    ELSE IF \/ \A k \in 1..Len(rows) : rows[k]["MP"] = <<0, 1>>
            \/ groupby_sum(rows, "MP") = <<0, 1>>
         THEN mean(column(rows, metric))
         ELSE np_average(column(rows, metric), column(rows, "MP"))

\* the lambda of the Hall-of-Fame script, when it returns
hof_weighted_average(t, rows, metric) ==
    np_average(column(rows, metric), column(rows, "MP"))

\* the exception df.groupby('Player').apply(lambda ...) of the Hall-of-Fame
\* script ends with, "none" when it returns
hof_apply_error(t) ==
    IF \A metric \in Range(weighted_by_mp) : metric \notin t.cols THEN "none"
    ELSE IF "MP" \notin t.cols THEN "KeyError"
    ELSE IF \E k \in 1..Len(players(t)) :
               weights_sum_to_zero(column(group(t, players(t)[k]), "MP"))
         THEN "ZeroDivisionError"
         ELSE "none"

\* the columns of the career table
career_columns(t) ==
    {"Player"}
        \cup {c \in {"HOF"} \cup Range(sum_metrics) \cup Range(weighted_by_mp)
                      \cup Range(career_award_columns) : c \in t.cols}

\* the value a career column takes for the group of a player, before
\* rounding; script is "NBA" or "HOF"
career_value(t, script, player, c) ==
    LET rows == group(t, player)
    IN  IF c = "HOF" THEN groupby_first(rows, c)
        ELSE IF c \in Range(sum_metrics) \cup Range(career_award_columns)
             THEN groupby_sum(rows, c)
        ELSE IF script = "NBA" THEN safe_weighted_average(t, rows, c)
             ELSE hof_weighted_average(t, rows, c)

\* career_stats as returned: the merges on Player, then round(3) of the
\* numeric columns
calculate_career_stats(t, script) ==
    LET cols == career_columns(t)
        ps == players(t)
    IN  [cols |-> cols,
         rows |-> [k \in 1..Len(ps) |->
                     [c \in cols |->
                        IF c = "Player" THEN ps[k]
                        ELSE round3(career_value(t, script, ps[k], c))]]]

(***************************************************************************)
(* Season tables the career aggregation is run on.                         *)
(***************************************************************************)
\* season rows of a table handed to calculate_career_stats
MaxSeasons == 3

PlayerNames == {"Kareem", "Bird"}

\* cells by column: HOF missing, 0, 1; MP missing, 0, 1.0, 2.0; PER missing,
\* 1.0, 2.0; VORP missing, 1.5; MVP 0, 1
CareerValues(c) ==
    CASE c = "HOF" -> {nan, <<0, 1>>, <<10000, 1>>}
      [] c = "MP" -> {nan, <<0, 1>>, <<10000, 1>>, <<20000, 1>>}
      [] c = "PER" -> {nan, <<10000, 1>>, <<20000, 1>>}
      [] c = "VORP" -> {nan, <<15000, 1>>}
      [] c = "MVP" -> {<<0, 1>>, <<10000, 1>>}

\* the columns a table has besides Player and G
CareerSchemas ==
    {{"MP", "PER"}, {"PER"}, {"HOF", "MVP"}, {"MP", "VORP"}}

CareerTable(names, schema, values) ==
    LET cols == {"Player", "G"} \cup schema
    IN  [cols |-> cols,
         rows |-> [i \in 1..Len(names) |->
                     [c \in cols |->
                        IF c = "Player" THEN names[i]
                        ELSE IF c = "G" THEN GamesAt(i)
                        ELSE values[i][c]]]]

\* the rows a schema admits
CareerRows(schema) ==
    {row \in [schema -> UNION {CareerValues(c) : c \in schema}] :
        \A c \in schema : row[c] \in CareerValues(c)}

InitCareer ==
    /\ \E n \in 1..MaxSeasons :
         \E schema \in CareerSchemas :
            \E names \in [1..n -> PlayerNames],
               values \in [1..n -> CareerRows(schema)] :
               df = CareerTable(names, schema, values)
    /\ prev = df
    /\ op = "none"
    /\ err = "none"
    /\ runs = 0
    /\ files = <<>>
    /\ processed_files = <<>>

\* regular_career = calculate_career_stats(regular_df_imputed) in the
\* all-players script
CalculateCareerStatsNBA ==
    /\ err = "none"
    /\ runs = 0
    /\ df' = calculate_career_stats(df, "NBA")
    /\ prev' = df
    /\ op' = "calculate_career_stats_NBA"
    /\ UNCHANGED err
    /\ runs' = runs + 1
    /\ UNCHANGED <<files, processed_files>>

\* the same call in the Hall-of-Fame script: an exception of the apply ends
\* the script, no career table is produced
CalculateCareerStatsHOF ==
    /\ err = "none"
    /\ runs = 0
    /\ err' = hof_apply_error(df)
    /\ df' = IF err' = "none" THEN calculate_career_stats(df, "HOF") ELSE df
    /\ prev' = df
    /\ op' = "calculate_career_stats_HOF"
    /\ runs' = runs + 1
    /\ UNCHANGED <<files, processed_files>>

NextCareer == CalculateCareerStatsNBA \/ CalculateCareerStatsHOF

SpecCareer == InitCareer /\ [][NextCareer]_vars

(***************************************************************************)
(* modify_single_season.py: per-file normalisation.  A file is             *)
(* [readable, cols, rows]: read_csv raises on a file that is not readable, *)
(* and returns the table [cols, rows] otherwise.                           *)
(***************************************************************************)
\* the characters of file and player names, in code-point order
ascii == " .0123456789ABKL_acdegikmoprsuv"

\* ord(c)
ord(c) == CHOOSE i \in 1..Len(ascii) : SubSeq(ascii, i, i) = c

\* a < b for Python strings
RECURSIVE str_less(_, _)
str_less(a, b) ==
    IF Len(b) = 0 THEN FALSE
    ELSE IF Len(a) = 0 THEN TRUE
    ELSE LET x == ord(SubSeq(a, 1, 1))
             y == ord(SubSeq(b, 1, 1))
         IN  IF x # y THEN x < y
             ELSE str_less(SubSeq(a, 2, Len(a)), SubSeq(b, 2, Len(b)))

\* sorted(S) for a set of strings
RECURSIVE sorted(_)
sorted(S) ==
    IF S = {} THEN <<>>
    ELSE LET least == CHOOSE a \in S : \A b \in S \ {a} : str_less(a, b)
         IN  <<least>> \o sorted(S \ {least})

IsDigit(c) == c \in {"0", "1", "2", "3", "4", "5", "6", "7", "8", "9"}

AllDigits(s) == \A i \in 1..Len(s) : IsDigit(SubSeq(s, i, i))

\* re.search(r'po_(\d{4})_(\d{4})', filename): the positions a match starts at
season_matches(filename) ==
    {i \in 1..(Len(filename) - 11) :
        /\ SubSeq(filename, i, i + 2) = "po_"
        /\ AllDigits(SubSeq(filename, i + 3, i + 6))
        /\ SubSeq(filename, i + 7, i + 7) = "_"
        /\ AllDigits(SubSeq(filename, i + 8, i + 11))}

\* extract_season_from_filename, "None" for None
extract_season_from_filename(filename) ==
    LET i == First(season_matches(filename))
    IN  IF i = 0 THEN "None"
        ELSE SubSeq(filename, i + 3, i + 6) \o "-"
                \o SubSeq(filename, i + 8, i + 11)

columns_to_remove == {"Age", "Team", "Pos", "Player-additional", "GS"}

\* df.drop(columns=[col]) for every col of columns_to_remove present
drop_columns(d, cols) ==
    [cols |-> d.cols \ cols,
     rows |-> [i \in 1..Len(d.rows) |->
                 [c \in d.cols \ cols |-> d.rows[i][c]]]]

\* df[award] = 0 for every award column the file lacks
add_award_columns(d) ==
    LET cols2 == d.cols \cup Range(award_columns)
    IN  [cols |-> cols2,
         rows |-> [i \in 1..Len(d.rows) |->
                     [c \in cols2 |-> IF c \in d.cols THEN d.rows[i][c]
                                      ELSE 0]]]

\* mutant: the first row of the group
idxmax_first(rows, col) == 1

\* mutant: the last position holding the largest value
idxmax_last(rows, col) ==
    LET best == {k \in 1..Len(rows) :
                   /\ ~isna(rows[k][col])
                   /\ \A j \in 1..Len(rows) :
                         isna(rows[j][col]) \/ ~RLess(rows[k][col], rows[j][col])}
    IN  IF best = {} THEN 0 ELSE CHOOSE k \in best : \A j \in best : j <= k

\* Series.idxmax(): the first position holding the largest value that is not
\* missing, 0 when every value is missing (the lookup of the row then raises)
idxmax(rows, col) ==
    First({k \in 1..Len(rows) :
             /\ ~isna(rows[k][col])
             /\ \A j \in 1..Len(rows) :
                   isna(rows[j][col]) \/ ~RLess(rows[k][col], rows[j][col])})

\* the exception the loop over player_groups ends with, "none" when it ends
consolidate_error(d) ==
    IF "Player" \notin d.cols THEN "KeyError"
    ELSE IF \A p \in Range(column(d.rows, "Player")) : Len(group(d, p)) = 1
         THEN "none"
    ELSE IF "G" \notin d.cols THEN "KeyError"
    ELSE IF \E p \in Range(column(d.rows, "Player")) :
               Len(group(d, p)) > 1 /\ idxmax(group(d, p), "G") = 0
         THEN "KeyError"
         ELSE "none"

\* new_rows: one row per group of df.groupby(['Player']), the groups in the
\* sorted order of the player names
consolidate(d) ==
    LET names == sorted(Range(column(d.rows, "Player")))
    IN  [cols |-> d.cols,
         rows |-> [k \in 1..Len(names) |->
                     LET g == group(d, names[k])
                     IN  IF Len(g) = 1 THEN g[1] ELSE g[idxmax(g, "G")]]]

\* process_nba_csv(input_file): err is the exception it raises ("none" when
\* it returns) and file what input_file holds afterwards
process_nba_csv(input_file, file) ==
    IF ~file.readable THEN [err |-> "ParserError", file |-> file]
    ELSE LET extracted == extract_season_from_filename(input_file)
             season == IF extracted = "None" THEN "Unknown" ELSE extracted
             tbl == [cols |-> file.cols, rows |-> file.rows]
             d == add_award_columns(
                     drop_columns(
                        set_columns(rename(tbl, "Rk", "Season"),
                                    {"Season"}, season),
                        columns_to_remove))
         IN  IF consolidate_error(d) # "none"
             THEN [err |-> consolidate_error(d), file |-> file]
             ELSE [err |-> "none",
                   file |-> [readable |-> TRUE,
                             cols |-> d.cols,
                             rows |-> consolidate(d).rows]]

\* mutant: the first failure ends the batch
remaining_after_error_none(order) == <<>>

\* "except Exception as e: print(...)": the loop goes on with the next file
remaining_after_error(order) == Tail(order)

\* the loop of process_all_nba_files over files, the glob result in the
\* order glob returned it
RECURSIVE process_files(_, _, _)
process_files(order, dir, processed) ==
    IF order = <<>> THEN [files |-> dir, processed_files |-> processed]
    ELSE LET input_file == Head(order)
             r == process_nba_csv(input_file, dir[input_file])
         IN  IF r.err = "none"
             THEN process_files(Tail(order),
                                [dir EXCEPT ![input_file] = r.file],
                                Append(processed, input_file))
             ELSE process_files(remaining_after_error(order), dir, processed)

process_all_nba_files(order, dir) == process_files(order, dir, <<>>)

(***************************************************************************)
(* combine_custom_season.py: merge_csv_files.                              *)
(***************************************************************************)
standard_columns ==
    <<"Season", "Player", "G", "MP", "PER", "TS%", "3PAr", "FTr", "ORB%",
      "DRB%", "TRB%", "AST%", "STL%", "BLK%", "TOV%", "USG%", "OWS", "DWS",
      "WS", "WS/48", "OBPM", "DBPM", "BPM", "VORP", "Awards", "Finals MVP">>

\* pd.NA in a column: a missing text cell or a missing number
NA(col) ==
    IF col \in {"Season", "Player", "Awards", "Finals MVP"} THEN NaN ELSE nan

\* df[df['Player'] != 'League Average']
drop_league_average(d) ==
    IF "Player" \notin d.cols THEN d
    ELSE [cols |-> d.cols,
          rows |-> SelectSeq(d.rows,
                             LAMBDA row : row["Player"] # "League Average")]

\* new_df: the standard columns, copied from the file or filled with NA
standardize(d) ==
    [k \in 1..Len(d.rows) |->
        [col \in Range(standard_columns) |->
            IF col \in d.cols THEN d.rows[k][col] ELSE NA(col)]]

\* the value of "merged_df is None"
NoTable == [cols |-> {}, rows |-> <<>>]

\* the loop over sorted(files): all_dfs, a file whose read raises left out
RECURSIVE all_dfs(_, _)
all_dfs(order, dir) ==
    IF order = <<>> THEN <<>>
    ELSE IF ~dir[Head(order)].readable THEN all_dfs(Tail(order), dir)
    ELSE <<standardize(drop_league_average(dir[Head(order)]))>>
            \o all_dfs(Tail(order), dir)

\* pd.concat(all_dfs, ignore_index=True)
RECURSIVE concat(_)
concat(dfs) == IF dfs = <<>> THEN <<>> ELSE Head(dfs) \o concat(Tail(dfs))

\* merge_csv_files(files, temp_output_file): the table it returns
merge_csv_files(dir) ==
    LET dfs == all_dfs(sorted(DOMAIN dir), dir)
    IN  IF dfs = <<>> THEN NoTable
        ELSE [cols |-> Range(standard_columns), rows |-> concat(dfs)]

temp_output == "temp_merged.csv"

\* merged_df.to_csv(temp_output_file, index=False), when there is a merged
\* table
to_csv(dir, name, table) ==
    IF table = NoTable THEN dir
    ELSE [f \in DOMAIN dir \cup {name} |->
            IF f = name
            THEN [readable |-> TRUE, cols |-> table.cols, rows |-> table.rows]
            ELSE dir[f]]

(***************************************************************************)
(* Directories of season files.                                            *)
(***************************************************************************)
\* rows of a season file
MaxFileRows == 3

FileNames == {"po_1949_1950.csv", "po_1950_1951.csv", "rg_1949_1950.csv"}

RawPlayers == {"Bird", "Kareem", "League Average"}

\* games of a raw row: missing, 10, 60
RawGames == {nan, <<100000, 1>>, <<600000, 1>>}

\* the columns of a raw file: all of them, or G or Player lacking
RawColumns ==
    {{"Rk", "Player", "Team", "G", "MP"},
     {"Rk", "Player", "Team", "MP"},
     {"Rk", "Team", "G", "MP"}}

\* the team and the minutes of the row at position i tell the rows apart
TeamAt(i) == <<"TOT", "BOS", "LAL", "NYK">>[i]

SeasonFile(cols, names, games) ==
    [readable |-> TRUE,
     cols |-> cols,
     rows |-> [i \in 1..Len(names) |->
                 [c \in cols |->
                    CASE c = "Rk" -> <<10000 * i, 1>>
                      [] c = "Player" -> names[i]
                      [] c = "Team" -> TeamAt(i)
                      [] c = "G" -> games[i]
                      [] c = "MP" -> GamesAt(i)]]]

Unreadable == [readable |-> FALSE, cols |-> {}, rows |-> <<>>]

\* the files of a directory of several: unreadable, one row, two rows of a
\* player with 10 and 60 games, two rows of a player with no games value
BatchFiles ==
    {Unreadable,
     SeasonFile({"Rk", "Player", "Team", "G", "MP"}, <<"Kareem">>,
                <<(<<100000, 1>>)>>),
     SeasonFile({"Rk", "Player", "Team", "G", "MP"}, <<"Bird", "Bird">>,
                <<(<<100000, 1>>), (<<600000, 1>>)>>),
     SeasonFile({"Rk", "Player", "Team", "G", "MP"}, <<"Bird", "Bird">>,
                <<nan, nan>>)}

InitFiles ==
    /\ \/ \E name \in FileNames, cols \in RawColumns, n \in 1..MaxFileRows :
             \E names \in [1..n -> RawPlayers], games \in [1..n -> RawGames] :
                files = [f \in {name} |-> SeasonFile(cols, names, games)]
       \/ \E S \in SUBSET FileNames :
             /\ Cardinality(S) >= 2
             /\ files \in [S -> BatchFiles]
    /\ processed_files = <<>>
    /\ df = NoTable
    /\ prev = files
    /\ op = "none"
    /\ err = "none"
    /\ runs = 0

\* the orders glob.glob may return the files of the directory in
GlobOrders(dir) ==
    {order \in [1..Cardinality(DOMAIN dir) -> DOMAIN dir] :
        \A i, j \in DOMAIN order : i # j => order[i] # order[j]}

\* processed_files = process_all_nba_files(input_pattern)
ProcessAllNbaFiles ==
    /\ op = "none"
    /\ \E order \in GlobOrders(files) :
          LET r == process_all_nba_files(order, files)
          IN  /\ files' = r.files
              /\ processed_files' = r.processed_files
    /\ prev' = files
    /\ op' = "process_all_nba_files"
    /\ runs' = runs + 1
    /\ UNCHANGED <<df, err>>

\* merged_df = merge_csv_files(files, temp_output), on the raw files or on
\* the files process_all_nba_files has rewritten
MergeCsvFiles ==
    /\ op \in {"none", "process_all_nba_files"}
    /\ df' = merge_csv_files(files)
    /\ files' = to_csv(files, temp_output, df')
    /\ prev' = files
    /\ op' = "merge_csv_files"
    /\ runs' = runs + 1
    /\ UNCHANGED <<processed_files, err>>

NextFiles == ProcessAllNbaFiles \/ MergeCsvFiles

SpecFiles == InitFiles /\ [][NextFiles]_vars

(***************************************************************************)
(* Properties of the award classifiers, stated on the table before the     *)
(* last run (prev) and the table after it (df).                            *)
(***************************************************************************)
\* the last run was handler h, it completed, and it found an Awards column
Classified(h) == op = h /\ err = "none" /\ "Awards" \in prev.cols

Classifiers == {"process_awards", "process_playoffs_awards"}

RowIds == 1..Len(prev.rows)

\* raw award text of record i, and its display string after the run
Raw(i) == prev.rows[i]["Awards"]
Display(i) == df.rows[i]["Awards List"]

\* the trimmed non-empty comma-separated tokens of record i
Tokens(i) == IF Raw(i) = NaN THEN <<>> ELSE award_parts(Raw(i))

Contains(s, sub) ==
    \E k \in 1..(Len(s) - Len(sub) + 1) : SubSeq(s, k, k + Len(sub) - 1) = sub

\* the ranked prefixes and unranked codes as the specification lists them
RankedCodes ==
    { <<"MVP-", "MVP">>, <<"ROY-", "ROY">>, <<"DPOY-", "DPOY">>,
      <<"6MOY-", "6MOY">>, <<"CPOY-", "CPOY">>, <<"MIP-", "MIP">> }
UnrankedCodes == {"AS", "DEF1", "DEF2", "NBA1", "NBA2", "NBA3"}

\* "/" + t + "/" for each token, in order
RECURSIVE Wrapped(_)
Wrapped(tokens) ==
    IF tokens = <<>> THEN ""
    ELSE "/" \o Head(tokens) \o "/" \o Wrapped(Tail(tokens))

\* C1: in regular-season classification the base flag of a ranked prefix P is
\* 1 exactly when one of the record's tokens is P followed by 1; a token
\* P<rank> of another rank is wrapped in the display string and sets nothing
C1_RankedFlagIffFirstPlace ==
    Classified("process_awards") =>
        \A i \in RowIds : \A rc \in RankedCodes :
            /\ df.rows[i][rc[2]] = (IF rc[1] \o "1" \in Range(Tokens(i)) THEN 1 ELSE 0)
            /\ \A t \in Range(Tokens(i)) :
                  (startswith(t, rc[1]) /\ t # rc[1] \o "1")
                      => Contains(Display(i), "/" \o t \o "/")

\* witness of C1: one record holds MVP-10 alone and keeps MVP at 0, another
\* holds MVP-1 and has MVP at 1
C1_Witness ==
    /\ Classified("process_awards")
    /\ \E i, j \in RowIds :
          /\ Raw(i) = "MVP-10" /\ df.rows[i]["MVP"] = 0
          /\ Display(i) = "/MVP-10/"
          /\ Raw(j) = " MVP-1 " /\ df.rows[j]["MVP"] = 1

\* C2: in regular-season classification an unranked flag is 1 exactly when
\* one of the record's tokens equals the code; no other token sets any flag,
\* and a table with award text is classified without an error
C2_UnrankedFlagIffExactToken ==
    (op = "process_awards" /\ "Awards" \in prev.cols
        /\ \E i \in RowIds : Raw(i) # NaN) =>
        /\ err = "none"
        /\ \A i \in RowIds :
              /\ \A code \in UnrankedCodes :
                    df.rows[i][code] = (IF code \in Range(Tokens(i)) THEN 1 ELSE 0)
              /\ \A col \in Range(award_columns) :
                    df.rows[i][col] = 1 =>
                        \/ col \in UnrankedCodes /\ col \in Range(Tokens(i))
                        \/ \E rc \in RankedCodes :
                              rc[2] = col /\ rc[1] \o "1" \in Range(Tokens(i))

\* witness of C2: a record with the tokens AS and ??? has AS set and nothing
\* else, a record with the token ASG has no flag at all
C2_Witness ==
    /\ Classified("process_awards")
    /\ \E i, j \in RowIds :
          /\ Raw(i) = "AS,???"
          /\ \A col \in Range(award_columns) : df.rows[i][col] = 1 <=> col = "AS"
          /\ Raw(j) = "ASG"
          /\ \A col \in Range(award_columns) : df.rows[j][col] = 0

\* C3: for a raw text with at least one non-empty token the display string
\* of either classifier is the concatenation, in order, of "/" + t + "/" over
\* the trimmed non-empty tokens
C3_DisplayIsWrappedTokens ==
    \A h \in Classifiers :
        Classified(h) =>
            \A i \in RowIds :
                Tokens(i) # <<>> => Display(i) = Wrapped(Tokens(i))

\* witness of C3: the three-token example of the specification
C3_Witness ==
    /\ Classified("process_awards")
    /\ \E i \in RowIds :
          Raw(i) = "MVP-1,AS,NBA1" /\ Display(i) = "/MVP-1//AS//NBA1/"

\* C4: in postseason classification Final MVP is 1 exactly when one of the
\* record's tokens is "Finals MVP-1"; every token is wrapped in the display
\* string, no other column is touched, and a Final MVP value of the input
\* does not survive
C4_FinalMVPIffToken ==
    (op = "process_playoffs_awards" /\ err = "none") =>
        /\ "Final MVP" \in df.cols
        /\ \A i \in RowIds :
              /\ df.rows[i]["Final MVP"] =
                    (IF "Awards" \in prev.cols
                        /\ "Finals MVP-1" \in Range(Tokens(i))
                     THEN 1 ELSE 0)
              /\ "Awards" \in prev.cols =>
                    \A t \in Range(Tokens(i)) :
                        Contains(Display(i), "/" \o t \o "/")
              /\ \A c \in prev.cols \ {"Awards", "Final MVP"} :
                    c \in df.cols /\ df.rows[i][c] = prev.rows[i][c]
        /\ df.cols \ {"Awards List", "Final MVP"} \subseteq prev.cols

\* witness of C4: a record that came with Final MVP = 1 and the token AS
\* ends with Final MVP = 0 and the display string /AS/
C4_Witness ==
    /\ Classified("process_playoffs_awards")
    /\ \E i \in RowIds :
          /\ "Final MVP" \in prev.cols
          /\ prev.rows[i]["Final MVP"] = 1
          /\ Raw(i) = "AS"
          /\ df.rows[i]["Final MVP"] = 0
          /\ Display(i) = "/AS/"

\* C5: a record whose raw text is non-empty after trimming has a non-empty
\* display string after either classifier, and when the tokens gave no text
\* the display string is the whole raw text in one slash pair
C5_AwardTextNeverLost ==
    \A h \in Classifiers :
        Classified(h) =>
            \A i \in RowIds :
                (Raw(i) # NaN /\ strip(Raw(i)) # "") =>
                    /\ Display(i) # ""
                    /\ Tokens(i) = <<>> => Display(i) = "/" \o Raw(i) \o "/"

\* witness of C5: a raw text of commas and blanks is kept whole
C5_Witness ==
    /\ Classified("process_playoffs_awards")
    /\ \E i \in RowIds : Raw(i) = " , " /\ Display(i) = "/ , /"

\* the flag columns classifier h writes
FlagColumns(h) ==
    IF h = "process_awards" THEN Range(award_columns) ELSE {"Final MVP"}

\* every flag column of the last classifier is 0 in record i
NoFlagSet(i) == \A col \in FlagColumns(op) : df.rows[i][col] = 0

\* C6 as stated: a raw text whose token list is empty leaves an empty display
\* string and no flag
C6_EmptyTokenListLeavesBothEmpty ==
    \A h \in Classifiers :
        Classified(h) =>
            \A i \in RowIds :
                (Raw(i) # NaN /\ Tokens(i) = <<>>) =>
                    Display(i) = "" /\ NoFlagSet(i)

\* C6 amended: a raw text whose token list is empty sets no flag; the display
\* string is the raw text untouched when it is all whitespace, and the raw
\* text in one slash pair when it holds a comma
C6_EmptyTokenListAmended ==
    \A h \in Classifiers :
        Classified(h) =>
            \A i \in RowIds :
                (Raw(i) # NaN /\ Tokens(i) = <<>>) =>
                    /\ NoFlagSet(i)
                    /\ Display(i) = (IF strip(Raw(i)) = "" THEN Raw(i)
                                     ELSE "/" \o Raw(i) \o "/")

\* witness of C6: a comma-only cell and a blank cell, classified
C6_Witness ==
    /\ Classified("process_awards")
    /\ \E i, j \in RowIds :
          /\ Raw(i) = "," /\ Display(i) = "/,/" /\ NoFlagSet(i)
          /\ Raw(j) = " " /\ Display(j) = " " /\ NoFlagSet(j)

(***************************************************************************)
(* Further properties of the award classifiers.                            *)
(***************************************************************************)
\* the tokens of record i name the flag column col of handler h
Earned(h, i, col) ==
    IF h = "process_playoffs_awards" THEN "Finals MVP-1" \in Range(Tokens(i))
    ELSE \/ col \in UnrankedCodes /\ col \in Range(Tokens(i))
         \/ \E rc \in RankedCodes :
               rc[2] = col /\ rc[1] \o "1" \in Range(Tokens(i))

\* C25: after a classification every flag of the classifier is 0 or 1 in
\* every record, 1 only when a token of the record names it (whatever the
\* column held before), 1 for AS when the text is "AS,AS", and 0 throughout
\* a record without award text
C25_FlagsAreZeroOrOne ==
    \A h \in Classifiers :
        Classified(h) =>
            \A i \in RowIds :
                /\ \A col \in FlagColumns(h) :
                      /\ df.rows[i][col] \in {0, 1}
                      /\ df.rows[i][col] = 1 => Earned(h, i, col)
                /\ (h = "process_awards" /\ Raw(i) = "AS,AS")
                      => df.rows[i]["AS"] = 1
                /\ Tokens(i) = <<>> =>
                      \A col \in FlagColumns(h) : df.rows[i][col] = 0

\* witness of C25: a record "AS,AS" that came with every flag at 1 leaves
\* regular-season classification with AS at 1 and MVP at 0
C25_Witness ==
    /\ Classified("process_awards")
    /\ "MVP" \in prev.cols
    /\ Raw(1) = "AS,AS"
    /\ prev.rows[1]["MVP"] = 1
    /\ df.rows[1]["AS"] = 1
    /\ df.rows[1]["MVP"] = 0

\* C26 as stated: a classifier applied to the table it returned returns it
\* as it is, flags and display strings
C26_ClassificationIdempotent ==
    (op \in Classifiers /\ runs = 2 /\ err = "none") => df = prev

(***************************************************************************)
(* Properties of the imputer, stated on the table passed to the last call  *)
(* (prev) and the table it returned (df).                                  *)
(***************************************************************************)
Imputed == op = "impute_missing_values"

\* the target metric columns of the input
Targets == Range(metrics_to_impute(prev))

\* the records of the input whose season starts in era e
InEra(e) == {i \in 1..Len(prev.rows) : Era(prev.rows[i]) = e}

\* the metric is missing in every input record of era e, which has records
LackedBy(e, metric) ==
    InEra(e) # {} /\ \A i \in InEra(e) : isna(prev.rows[i][metric])

\* the mean of the metric over the input records in S
InputMean(metric, S) == MeanOver(prev.rows, metric, S)

\* C7 as stated: after impute_missing_values no record has a missing value
\* in a target metric column of the input
C7_NoMissingAfterImputation ==
    Imputed =>
        \A i \in 1..Len(df.rows) : \A metric \in Targets :
            ~isna(df.rows[i][metric])

\* the later eras, in chronological order, in which the metric is not
\* entirely missing in the input
LaterErasWith(k, metric) ==
    {j \in (k + 1)..Len(labels) :
        \E i \in InEra(labels[j]) : ~isna(prev.rows[i][metric])}

\* C8 as stated: when a metric is missing in every input record of an era,
\* every record of that era ends with the mean of the metric over the first
\* later era that has it (the nearest-neighbour fill of that later era, a
\* mean of all its donors within these bounds, leaves that mean unchanged)
C8_CrossEraBackfill ==
    (Imputed /\ runs = 1) =>
        \A metric \in Targets : \A k \in 1..Len(labels) :
            (LackedBy(labels[k], metric) /\ LaterErasWith(k, metric) # {}) =>
                \A i \in InEra(labels[k]) :
                    df.rows[i][metric] =
                        round3(InputMean(metric,
                                         InEra(labels[First(LaterErasWith(k, metric))])))

\* C9 as stated: a record that is alone in its era and lacks a metric gets
\* the mean of the metric over all records of all eras, and 20.0 (MP) or 0.0
\* (any other metric) when no record has the metric
C9_SingleRecordEraFallback ==
    (Imputed /\ runs = 1) =>
        \A e \in Range(labels) : \A i \in InEra(e) : \A metric \in Targets :
            (InEra(e) = {i} /\ isna(prev.rows[i][metric])) =>
                df.rows[i][metric] =
                    (IF \A j \in 1..Len(prev.rows) : isna(prev.rows[j][metric])
                     THEN (IF metric = "MP" THEN <<200000, 1>> ELSE <<0, 1>>)
                     ELSE round3(InputMean(metric, 1..Len(prev.rows))))

\* no target metric of table t is missing in any record
NoMissing(t) ==
    \A i \in 1..Len(t.rows) : \A metric \in Range(metrics_to_impute(t)) :
        ~isna(t.rows[i][metric])

\* C10: on a table without missing target metrics impute_missing_values
\* returns every value rounded to 3 decimals and nothing else changed, and
\* imputing the table returned by an earlier call returns it as it is
C10_ImputerIdempotent ==
    Imputed =>
        /\ NoMissing(prev) =>
              /\ df.cols = prev.cols
              /\ Len(df.rows) = Len(prev.rows)
              /\ \A i \in 1..Len(prev.rows) : \A c \in prev.cols :
                    df.rows[i][c] = (IF c = "Season" THEN prev.rows[i][c]
                                     ELSE round3(prev.rows[i][c]))
        /\ runs >= 2 => df = prev

\* witness of C10: a table of several eras without missing values, a 20.0044
\* of a record alone in its era returned as 20.004
C10_Witness ==
    /\ Imputed /\ runs = 1
    /\ NoMissing(prev)
    /\ "PER" \in prev.cols
    /\ Len(prev.rows) = 3
    /\ \E i \in InEra("Pre-modern") :
          /\ InEra("Pre-modern") = {i}
          /\ prev.rows[i]["PER"] = <<200044, 1>>
          /\ df.rows[i]["PER"] = <<200040, 1>>
          /\ \E j \in InEra("Modern") : prev.rows[j]["PER"] = <<100000, 1>>

(***************************************************************************)
(* Properties of calculate_career_stats, stated on the season table (prev) *)
(* and the career table returned (df).                                     *)
(***************************************************************************)
\* one of the two scripts has called calculate_career_stats
Aggregated ==
    op \in {"calculate_career_stats_NBA", "calculate_career_stats_HOF"}

\* ... and the call returned a career table
Returned == Aggregated /\ err = "none"

InputPlayers == {prev.rows[i]["Player"] : i \in 1..Len(prev.rows)}

\* the season rows of player p, the career rows of player p
SeasonsOf(p) == {i \in 1..Len(prev.rows) : prev.rows[i]["Player"] = p}
CareerOf(p) == {k \in 1..Len(df.rows) : df.rows[k]["Player"] = p}

\* the career value of column c for a player with a single career row
Career(p, c) == df.rows[CHOOSE k \in CareerOf(p) : TRUE][c]

\* the sum of column c over the season rows S, missing cells left out
RECURSIVE ColumnTotal(_, _)
ColumnTotal(S, c) ==
    IF S = {} THEN <<0, 1>>
    ELSE LET i == CHOOSE x \in S : TRUE
             rest == ColumnTotal(S \ {i}, c)
         IN  IF isna(prev.rows[i][c]) THEN rest
             ELSE RAdd(prev.rows[i][c], rest)

\* the sum of MP(s) * v(s) over the season rows S, all cells present
RECURSIVE WeightedTotal(_, _)
WeightedTotal(S, metric) ==
    IF S = {} THEN <<0, 1>>
    ELSE LET i == CHOOSE x \in S : TRUE
         IN  RAdd(RMul(prev.rows[i]["MP"], prev.rows[i][metric]),
                  WeightedTotal(S \ {i}, metric))

\* a / b for b > 0
RDiv(a, b) == Q(a[1] * b[2], a[2] * b[1])

AllPresent(S, c) == \A i \in S : ~isna(prev.rows[i][c])
AllMissing(S, c) == \A i \in S : isna(prev.rows[i][c])

RateMetrics == Range(weighted_by_mp) \cap prev.cols
SummedColumns ==
    (Range(sum_metrics) \cup Range(career_award_columns)) \cap prev.cols

\* the unweighted mean of a metric over the season rows S
PlainMean(S, metric) ==
    mean([i \in 1..Len(prev.rows) |->
            IF i \in S THEN prev.rows[i][metric] ELSE nan])

\* C11: the career table returned holds exactly one record for every Player
\* value of the season table and no record for anyone else; the all-players
\* script always returns it
C11_OneCareerRecordPerPlayer ==
    Aggregated =>
        /\ op = "calculate_career_stats_NBA" => err = "none"
        /\ err = "none" =>
              /\ \A p \in InputPlayers : Cardinality(CareerOf(p)) = 1
              /\ \A k \in 1..Len(df.rows) : df.rows[k]["Player"] \in InputPlayers

\* witness of C11: three season rows of two players give two career records
C11_Witness ==
    /\ Returned
    /\ Len(prev.rows) = 3
    /\ Cardinality(InputPlayers) = 2
    /\ Len(df.rows) = 2

\* C12: for a player whose minutes are present and sum to a non-zero total
\* and whose values of a rate metric are all present, the career value of the
\* metric is sum(MP * v) / sum(MP) over the player's seasons, rounded to 3
\* decimals
C12_MinutesWeightedAverage ==
    Returned /\ "MP" \in prev.cols =>
        \A metric \in RateMetrics : \A p \in InputPlayers :
            LET S == SeasonsOf(p)
            IN  /\ AllPresent(S, metric)
                /\ AllPresent(S, "MP")
                /\ ColumnTotal(S, "MP") # <<0, 1>>
                => Career(p, metric)
                     = round3(RDiv(WeightedTotal(S, metric),
                                   ColumnTotal(S, "MP")))

\* witness of C12: minutes 1.0 and 2.0 with PER 1.0 and 2.0 give 1.667, the
\* unweighted mean being 1.5
C12_Witness ==
    /\ Returned
    /\ {"MP", "PER"} \subseteq prev.cols
    /\ \E p \in InputPlayers :
          /\ Cardinality(SeasonsOf(p)) = 2
          /\ AllPresent(SeasonsOf(p), "PER")
          /\ AllPresent(SeasonsOf(p), "MP")
          /\ Career(p, "PER") = <<16670, 1>>
          /\ round3(PlainMean(SeasonsOf(p), "PER")) = <<15000, 1>>

\* C13: in both scripts the aggregation returns, and a player whose minutes
\* are all 0 gets for each rate metric the unweighted mean of the metric
\* over the player's seasons
C13_ZeroWeightUnweightedMean ==
    Aggregated /\ "MP" \in prev.cols =>
        /\ err = "none"
        /\ \A metric \in RateMetrics : \A p \in InputPlayers :
              (\A i \in SeasonsOf(p) : prev.rows[i]["MP"] = <<0, 1>>)
              => Career(p, metric) = round3(PlainMean(SeasonsOf(p), metric))

\* C14: a rate metric missing in every season of a player is missing in the
\* player's career record
C14_AllMissingStaysMissing ==
    Returned =>
        \A metric \in RateMetrics : \A p \in InputPlayers :
            AllMissing(SeasonsOf(p), metric) => isna(Career(p, metric))

\* witness of C14: a player with 0 minutes and no PER in any of two seasons,
\* next to a player who has a PER
C14_Witness ==
    /\ Returned
    /\ {"MP", "PER"} \subseteq prev.cols
    /\ \E p, q \in InputPlayers :
          /\ Cardinality(SeasonsOf(p)) = 2
          /\ AllMissing(SeasonsOf(p), "PER")
          /\ \A i \in SeasonsOf(p) : prev.rows[i]["MP"] = <<0, 1>>
          /\ isna(Career(p, "PER"))
          /\ ~isna(Career(q, "PER"))

\* C15: every counting stat and award flag of the career record is the sum
\* of the column over the season rows of that player
C15_CountingStatsAndAwardsSummed ==
    Returned =>
        \A c \in SummedColumns : \A p \in InputPlayers :
            Career(p, c) = ColumnTotal(SeasonsOf(p), c)

\* witness of C15: an MVP flag set in two seasons of a player gives 2, while
\* the other player of the table has none
C15_Witness ==
    /\ Returned
    /\ "MVP" \in prev.cols
    /\ \E p, q \in InputPlayers :
          /\ Cardinality(SeasonsOf(p)) = 2
          /\ \A i \in SeasonsOf(p) : prev.rows[i]["MVP"] = <<10000, 1>>
          /\ Career(p, "MVP") = <<20000, 1>>
          /\ Career(q, "MVP") = <<0, 1>>
          /\ Career(p, "G") # Career(q, "G")

\* the first season row of player p in table order
FirstSeason(p) == CHOOSE i \in SeasonsOf(p) : \A j \in SeasonsOf(p) : i <= j

\* C16: the career hof of a player is the hof value of the player's first
\* season row (a value being there), hence the common value when all the
\* player's rows carry the same one
C16_HofOfFirstSeason ==
    Returned /\ "HOF" \in prev.cols =>
        \A p \in InputPlayers :
            /\ ~isna(prev.rows[FirstSeason(p)]["HOF"])
               => Career(p, "HOF") = prev.rows[FirstSeason(p)]["HOF"]
            /\ \A v \in {<<0, 1>>, <<10000, 1>>} :
                  (\A i \in SeasonsOf(p) : prev.rows[i]["HOF"] = v)
                  => Career(p, "HOF") = v

\* witness of C16: hof 1 in the first season row and 0 in a later one give 1
C16_Witness ==
    /\ Returned
    /\ "HOF" \in prev.cols
    /\ \E p \in InputPlayers :
          /\ Cardinality(SeasonsOf(p)) >= 2
          /\ prev.rows[FirstSeason(p)]["HOF"] = <<10000, 1>>
          /\ \E i \in SeasonsOf(p) : prev.rows[i]["HOF"] = <<0, 1>>
          /\ Career(p, "HOF") = <<10000, 1>>

\* C17: whatever expected column the season table lacks, the aggregation
\* returns, and the career table has the columns of the season table that
\* the aggregator knows
C17_AbsentColumnOmitted ==
    Aggregated =>
        /\ err = "none"
        /\ df.cols = {"Player"} \cup
                        (prev.cols \cap ({"HOF"} \cup Range(sum_metrics)
                                           \cup Range(weighted_by_mp)
                                           \cup Range(career_award_columns)))

\* C20: for a player with one season row the aggregation returns and every
\* column of the career record is the season row's value rounded to 3
\* decimals
C20_SingleSeasonUnchanged ==
    Aggregated =>
        \A p \in InputPlayers :
            Cardinality(SeasonsOf(p)) = 1 =>
                /\ err = "none"
                /\ \A c \in df.cols \ {"Player"} :
                      Career(p, c) = round3(prev.rows[FirstSeason(p)][c])

(***************************************************************************)
(* Properties of the file handlers, stated on the directory before the     *)
(* last call (prev) and after it (files).                                  *)
(***************************************************************************)
Normalized == op = "process_all_nba_files"
Merged == op = "merge_csv_files"

\* the positions of the rows of player p in a file
RowsOf(file, p) == {i \in 1..Len(file.rows) : file.rows[i]["Player"] = p}

PlayersOf(file) == {file.rows[i]["Player"] : i \in 1..Len(file.rows)}

\* process_nba_csv goes through on a file: it can be read, has a Player
\* column, and every player with several rows has a games value in one
HasGames(file, p) ==
    /\ "G" \in file.cols
    /\ \E i \in RowsOf(file, p) : ~isna(file.rows[i]["G"])

Succeeds(file) ==
    /\ file.readable
    /\ "Player" \in file.cols
    /\ \A p \in PlayersOf(file) :
          Cardinality(RowsOf(file, p)) > 1 => HasGames(file, p)

\* row i of the raw file has the largest games value of its player
MostGames(file, i) ==
    /\ ~isna(file.rows[i]["G"])
    /\ \A j \in RowsOf(file, file.rows[i]["Player"]) :
          isna(file.rows[j]["G"])
             \/ ~RLess(file.rows[i]["G"], file.rows[j]["G"])

\* C18: a season file that process_nba_csv has rewritten holds one row for
\* every player of the raw file and no other row, and the row of a player
\* who had several is one of them with the largest games value
C18_OneRowPerPlayerMostGames ==
    Normalized =>
        \A f \in Range(processed_files) :
            LET raw == prev[f]
                new == files[f]
            IN  /\ PlayersOf(new) = PlayersOf(raw)
                /\ \A p \in PlayersOf(raw) :
                      /\ Cardinality(RowsOf(new, p)) = 1
                      /\ \E i \in RowsOf(raw, p) :
                            LET row == new.rows[CHOOSE k \in RowsOf(new, p) : TRUE]
                            IN  /\ \A c \in (raw.cols \cap new.cols) \ {"Season"} :
                                      row[c] = raw.rows[i][c]
                                /\ Cardinality(RowsOf(raw, p)) > 1
                                      => MostGames(raw, i)

\* witness of C18: Bird with 10 games then 60 games and Kareem with one row
\* leave Bird's 60-game row and Kareem's row
C18_Witness ==
    /\ Normalized
    /\ \E f \in Range(processed_files) :
          /\ Len(prev[f].rows) = 3
          /\ "G" \in prev[f].cols
          /\ prev[f].rows[1]["Player"] = "Bird"
          /\ prev[f].rows[1]["G"] = <<100000, 1>>
          /\ prev[f].rows[2]["Player"] = "Bird"
          /\ prev[f].rows[2]["G"] = <<600000, 1>>
          /\ prev[f].rows[3]["Player"] = "Kareem"
          /\ Len(files[f].rows) = 2
          /\ \E k \in 1..2 : /\ files[f].rows[k]["Player"] = "Bird"
                             /\ files[f].rows[k]["G"] = <<600000, 1>>

\* the row a row of a file contributes to the merged table
Contribution(file, i) ==
    [col \in Range(standard_columns) |->
        IF col \in file.cols THEN file.rows[i][col] ELSE NA(col)]

\* the rows of a file that the merge keeps
Kept(file) ==
    {i \in 1..Len(file.rows) :
        "Player" \in file.cols => file.rows[i]["Player"] # "League Average"}

\* how many rows equal to r the readable files of the set S contribute
RECURSIVE Contributed(_, _)
Contributed(S, r) ==
    IF S = {} THEN 0
    ELSE LET f == CHOOSE x \in S : TRUE
         IN  (IF prev[f].readable
              THEN Cardinality({i \in Kept(prev[f]) :
                                  Contribution(prev[f], i) = r})
              ELSE 0)
             + Contributed(S \ {f}, r)

AllContributions ==
    UNION {{Contribution(prev[f], i) : i \in Kept(prev[f])} :
             f \in {x \in DOMAIN prev : prev[x].readable}}

\* C19: neither batch raises; process_all_nba_files returns, once each, the
\* files process_nba_csv went through on and leaves the others as they were;
\* merge_csv_files returns the rows of the files that could be read, each as
\* often as the files hold it, and no table when none could be read
C19_PerFileFailureIsolation ==
    /\ Normalized =>
          /\ err = "none"
          /\ \A i, j \in 1..Len(processed_files) :
                i # j => processed_files[i] # processed_files[j]
          /\ Range(processed_files) = {f \in DOMAIN prev : Succeeds(prev[f])}
          /\ \A f \in DOMAIN prev : ~Succeeds(prev[f]) => files[f] = prev[f]
    /\ Merged =>
          /\ err = "none"
          /\ (\A f \in DOMAIN prev : ~prev[f].readable) <=> df = NoTable
          /\ \A r \in AllContributions \cup Range(df.rows) :
                Cardinality({k \in 1..Len(df.rows) : df.rows[k] = r})
                   = Contributed(DOMAIN prev, r)

\* witness of C19: of three files the second in name order cannot be read
\* and the two others are normalised and merged, one row each
C19_Witness ==
    /\ Merged
    /\ DOMAIN prev = FileNames
    /\ ~prev["po_1950_1951.csv"].readable
    /\ Len(processed_files) = 2
    /\ Len(df.rows) = 2

(***************************************************************************)
(* Further properties of the imputer.                                      *)
(***************************************************************************)
\* df_imputed as the per-era pass leaves it
AfterFirstPass ==
    LET df_imputed == with_era(prev)
    IN  first_pass(df_imputed, unique(column(df_imputed.rows, "Era")))

\* C21 as stated: in an era of several records a metric that every record of
\* the era lacks is still missing in all of them after the per-era pass
C21_FirstPassLeavesWhollyMissing ==
    Imputed =>
        \A e \in Range(labels) : \A metric \in Targets :
            (Cardinality(InEra(e)) > 1 /\ LackedBy(e, metric))
            => \A i \in InEra(e) : isna(AfterFirstPass.rows[i][metric])

\* the input table cut down to the records of era e, in table order
OnlyEra(e) ==
    [cols |-> prev.cols,
     rows |-> SelectSeq(prev.rows, LAMBDA row : Era(row) = e)]

\* the positions of the records of era e, ascending
RECURSIVE Ascending(_)
Ascending(S) ==
    IF S = {} THEN <<>>
    ELSE LET least == CHOOSE i \in S : \A j \in S : i <= j
         IN  <<least>> \o Ascending(S \ {least})

\* C22: the records of an era of several records come out of the imputer as
\* they come out of it when the table holds the records of that era only
C22_EraIsolation ==
    Imputed =>
        \A e \in Range(labels) :
            Cardinality(InEra(e)) > 1 =>
                LET alone == impute_missing_values(OnlyEra(e))
                    idx == Ascending(InEra(e))
                IN  \A k \in 1..Len(idx) : df.rows[idx[k]] = alone.rows[k]

\* witness of C22: an era of two records, one of which gets its MP from the
\* other, next to a record of another era with another MP
C22_Witness ==
    /\ Imputed /\ runs = 1
    /\ "MP" \in prev.cols
    /\ \E e \in Range(labels) : \E i, j \in InEra(e) : \E o \in 1..Len(prev.rows) :
          /\ Cardinality(InEra(e)) = 2
          /\ isna(prev.rows[i]["MP"])
          /\ prev.rows[j]["MP"] = <<100000, 1>>
          /\ df.rows[i]["MP"] = <<100000, 1>>
          /\ o \notin InEra(e)
          /\ Era(prev.rows[o]) \in Range(labels)
          /\ prev.rows[o]["MP"] = <<200044, 1>>

\* C23 as stated: the starting year of every season record lies in exactly
\* one of the four year ranges
C23_EveryRecordHasOneEra ==
    Imputed =>
        \A i \in 1..Len(prev.rows) :
            Cardinality({k \in 1..Len(labels) :
                           /\ bins[k] < Year(prev.rows[i])
                           /\ Year(prev.rows[i]) <= bins[k + 1]}) = 1

\* C24: the imputer returns the records of its input in their order with
\* the same columns, and every cell that held a value holds that value
\* rounded to 3 decimals
C24_OnlyGapsFilled ==
    Imputed =>
        /\ df.cols = prev.cols
        /\ Len(df.rows) = Len(prev.rows)
        /\ \A i \in 1..Len(prev.rows) :
              /\ df.rows[i]["Season"] = prev.rows[i]["Season"]
              /\ \A c \in prev.cols \ {"Season"} :
                    ~isna(prev.rows[i][c])
                    => df.rows[i][c] = round3(prev.rows[i][c])

\* witness of C24: in an era of two records the one with MP 20.0044 and no
\* PER comes out with MP 20.004 and a PER, the other keeps its PER
C24_Witness ==
    /\ Imputed /\ runs = 1
    /\ {"MP", "PER"} \subseteq prev.cols
    /\ \E e \in Range(labels) : \E i, j \in InEra(e) :
          /\ i # j
          /\ prev.rows[i]["MP"] = <<200044, 1>>
          /\ isna(prev.rows[i]["PER"])
          /\ prev.rows[j]["PER"] = <<100000, 1>>
          /\ df.rows[i]["MP"] = <<200040, 1>>
          /\ df.rows[i]["PER"] = <<100000, 1>>
          /\ df.rows[j]["PER"] = <<100000, 1>>

\* the rows of table t in the order p
Reordered(t, p) ==
    [cols |-> t.cols, rows |-> [k \in 1..Len(t.rows) |-> t.rows[p[k]]]]

RowOrders(n) ==
    {p \in [1..n -> 1..n] : \A i, j \in 1..n : i # j => p[i] # p[j]}

\* C28 as stated: the imputer run on the rows in another order returns the
\* same records in that order
C28_RowOrderIndependent ==
    (Imputed /\ runs = 1) =>
        \A p \in RowOrders(Len(prev.rows)) :
            impute_missing_values(Reordered(prev, p)) = Reordered(df, p)

(***************************************************************************)
(* Further properties of the consolidation and of the career aggregation.  *)
(***************************************************************************)
\* the first row of player p in the raw file among those with the largest
\* games value
FirstWithMostGames(file, p) ==
    CHOOSE i \in RowsOf(file, p) :
        /\ MostGames(file, i)
        /\ \A j \in RowsOf(file, p) : MostGames(file, j) => i <= j

\* C27: of the rows of a player in a season file exactly one survives, and
\* when several share the largest games value it is the first of them in
\* file order
C27_TieBreakFirstInFileOrder ==
    Normalized =>
        \A f \in Range(processed_files) : \A p \in PlayersOf(prev[f]) :
            Cardinality(RowsOf(prev[f], p)) > 1 =>
                /\ Cardinality(RowsOf(files[f], p)) = 1
                /\ LET row == files[f].rows[CHOOSE k \in RowsOf(files[f], p) : TRUE]
                       first == prev[f].rows[FirstWithMostGames(prev[f], p)]
                   IN  \A c \in (prev[f].cols \cap files[f].cols) \ {"Season"} :
                          row[c] = first[c]

\* witness of C27: Bird's rows 2 and 3 both hold 60 games, row 1 holds 10;
\* the row that survives is row 2, with its minutes
C27_Witness ==
    /\ Normalized
    /\ \E f \in Range(processed_files) :
          /\ Len(prev[f].rows) = 3
          /\ "G" \in prev[f].cols
          /\ \A i \in 1..3 : prev[f].rows[i]["Player"] = "Bird"
          /\ prev[f].rows[1]["G"] = <<100000, 1>>
          /\ prev[f].rows[2]["G"] = <<600000, 1>>
          /\ prev[f].rows[3]["G"] = <<600000, 1>>
          /\ Len(files[f].rows) = 1
          /\ files[f].rows[1]["MP"] = prev[f].rows[2]["MP"]
          /\ files[f].rows[1]["MP"] # prev[f].rows[3]["MP"]

\* C29 as stated: in a career table a rate metric of a player is present as
\* soon as one season of the player holds a value of it
C29_CareerMissingOnlyIfAllMissing ==
    Returned =>
        \A metric \in RateMetrics : \A p \in InputPlayers :
            ~AllMissing(SeasonsOf(p), metric) => ~isna(Career(p, metric))

====
